---- MODULE Spec2Model ----
(***************************************************************************)
(* Verification model of the verovio web worker (verovio-worker.js): the   *)
(* bootstrap callback, resolve, reject and the message event listener;     *)
(* and of the page scripts (shopit.js and its variants): the command       *)
(* handlers, the upload handler, processResponse and renderMusic.          *)
(*                                                                         *)
(* JavaScript values are modelled by strings naming them.  A message       *)
(* payload is a record; postMessage appends to the worker's outbox unless  *)
(* the structured clone of its payload fails (DataCloneError).              *)
(***************************************************************************)
EXTENDS Naturals, Sequences, FiniteSets, TLC

VARIABLES
    methods,      \* self.methods: "null" | "unbound" | "bound"
    bootstrap,    \* onRuntimeInitialized: "pending" | "completed" | "threw"
    inbox,        \* message events queued for the worker, oldest first
    outbox,       \* everything the worker passed to postMessage, in order
    arrived,      \* history: every payload delivered to the worker, in order
    handled,      \* history: one record per finished run of the listener
    nextIdx,      \* the caller's next correlation id
    \* ---- the page scripts
    page,         \* which variant of the page script is loaded
    initialScore, \* decoded text of the #initialScore element
    domLoaded,    \* DOMContentLoaded has been dispatched
    libInit,      \* the verovio runtime has initialized in the page
    onInitSet,    \* verovio.module.onRuntimeInitialized has been assigned
    tk,           \* tk / verovioToolkit: "undefined" | "toolkit"
    toolkits,     \* history: per toolkit instance stored, its setOptions calls
    gScoreMei,    \* the stored score
    notation,     \* the score shown in the #notation element
    formData,     \* the implicit global formData
    jsonBody,     \* the implicit global jsonBody
    activations,  \* history: handler activations, in order
    reads,        \* file selections whose FileReader has not loaded yet
    requests,     \* every POST sent, with its response once it arrived
    renders,      \* history: the scores page events handed to the renderer
    lastRendered, \* the score most recently handed to the renderer
    console,      \* history: every appendToConsole text logged, by request
    svgClicks     \* history: the click on the notation, with what it sent

wvars == <<methods, bootstrap, inbox, outbox, arrived, handled, nextIdx>>

pvars == <<page, initialScore, domLoaded, libInit, onInitSet, tk, toolkits,
           gScoreMei, notation, formData, jsonBody, activations, reads,
           requests, renders, lastRendered, console, svgClicks>>

vars == <<wvars, pvars>>

\* ------------------------------------------------------------------ bounds

\* Number of messages the main thread sends in one run.
MaxCalls == 3

\* Number of handler activations (clicks and file selections) in one run.
MaxClicks == 2

\* ------------------------------------------------------------ JS values

\* Values the structured clone algorithm refuses: an object graph holding
\* functions or WASM handles (the registry once it holds the toolkit), and
\* a thrown platform object that is not serializable.
Unpostable == {"methodsWithToolkit", "WasmException"}

Cloneable(v) == v \notin Unpostable

\* What the rendering library may throw out of a call.
LibraryErrors == {"LibError", "WasmException"}

Return(v) == [kind |-> "return", value |-> v]

Throw(v) == [kind |-> "throw", value |-> v]

\* ------------------------------------------------------------- payloads

NullData == [null |-> TRUE]

IsNull(data) == "null" \in DOMAIN data

CallEnvelope(method, idx, args) == [method |-> method, idx |-> idx, args |-> args]

\* The operations verovioCalls registers.
Registered == {"renderData", "getVersion", "setOptions"}

\* Function-valued properties every object inherits from Object.prototype.
ObjectPrototype == {"toString", "valueOf"}

\* Method names the caller may put in an envelope.
MethodNames == Registered \cup ObjectPrototype \cup {"vrvToolkit", "noSuchMethod"}

\* The (method, args) pairs the caller sends.
CallShapes ==
    {<<"renderData", <<"goodScore">>>>, <<"renderData", <<"badScore">>>>}
    \cup {<<m, <<>>>> : m \in MethodNames \ {"renderData"}}

\* ------------------------------------------------------- rendering library

\* verovio.toolkit as seen through the adapter: the value a call returns or
\* the values it may throw.
LibraryCall(method, args) ==
    CASE method = "getVersion" -> {Return("version")}
      [] method = "setOptions" -> {Return("undefined")}
      [] method = "renderData" ->
            IF Len(args) >= 1 /\ args[1] = "goodScore"
            THEN {Return("svg")}
            ELSE {Throw(e) : e \in LibraryErrors}

\* A registered operation forwards to this.vrvToolkit; with vrvToolkit
\* never assigned the property read gives undefined and the call throws.
AdapterCall(m, method, args) ==
    IF m = "bound" THEN LibraryCall(method, args) ELSE {Throw("TypeError")}

\* methods[name].apply(methods, args) on a registry object: a registered
\* operation, a function inherited from Object.prototype, or a property
\* that is undefined or not callable (TypeError).
InvokeOn(m, method, args) ==
    IF method \in Registered THEN AdapterCall(m, method, args)
    ELSE IF method = "toString" THEN {Return("[object Object]")}
    ELSE IF method = "valueOf"
         THEN {Return(IF m = "bound" THEN "methodsWithToolkit" ELSE "emptyObject")}
    ELSE {Throw("TypeError")}

Invoke_optionalChaining(m, method, args) ==
    IF m = "null" THEN {Return("undefined")} ELSE InvokeOn(m, method, args)

\* methods[oEvent.data.method].apply(methods, oEvent.data.args): indexing
\* null throws a TypeError.
Invoke(m, method, args) ==
    IF m = "null" THEN {Throw("TypeError")} ELSE InvokeOn(m, method, args)

\* ------------------------------------------------------------ the worker

ReadyMsg == [method |-> "ready"]

IsResult(msg) == "success" \in DOMAIN msg

resolve_failureFlag(data, result) ==
    [method |-> data.method, idx |-> data.idx, result |-> result, success |-> FALSE]

resolve_dropsResult(data, result) ==
    [method |-> data.method, idx |-> data.idx, result |-> "undefined", success |-> TRUE]

resolve(data, result) ==
    [method |-> data.method, idx |-> data.idx, result |-> result, success |-> TRUE]

reject_wrongIdx(data, result) ==
    [method |-> data.method, idx |-> data.idx + 1, result |-> result, success |-> FALSE]

reject_fixedMethod(data, result) ==
    [method |-> "error", idx |-> data.idx, result |-> result, success |-> FALSE]

reject(data, result) ==
    [method |-> data.method, idx |-> data.idx, result |-> result, success |-> FALSE]

\* One run of postMessage(msg) from resolve or reject: the messages it adds
\* to the outbox and the exception it throws ("none" when it returns).
PostMessage(msg) ==
    IF Cloneable(msg.result)
    THEN [posted |-> <<msg>>, thrown |-> "none"]
    ELSE [posted |-> <<>>, thrown |-> "DataCloneError"]

\* The catch block: reject(oEvent.data, err).
Catch(data, err, outcome) ==
    LET p == PostMessage(reject(data, err))
    IN  [outcome |-> outcome, posted |-> p.posted, uncaught |-> p.thrown]

\* The listener's body once the operation's outcome is known.
Finish(data, outcome) ==
    IF outcome.kind = "return"
    THEN LET p == PostMessage(resolve(data, outcome.value))
         IN  IF p.thrown = "none"
             THEN [outcome |-> outcome, posted |-> p.posted, uncaught |-> "none"]
             ELSE Catch(data, p.thrown, outcome)
    ELSE Catch(data, outcome.value, outcome)

\* All runs of the message listener on payload data with registry state m.
\* Null data: oEvent.data.method throws in the try block and again in
\* reject, so that TypeError leaves the listener.
Listener(m, data) ==
    IF IsNull(data)
    THEN {[outcome |-> Throw("TypeError"), posted |-> <<>>, uncaught |-> "TypeError"]}
    ELSE {Finish(data, o) : o \in Invoke(m, data.method, data.args)}

BootstrapPosts_twice == <<ReadyMsg, ReadyMsg>>

\* What the bootstrap callback passes to postMessage when it completes.
BootstrapPosts == <<ReadyMsg>>

\* --------------------------------------------------------------- actions

\* The page scripts before anything has run: let gScoreMei = '', tk and
\* verovioToolkit declared without a value.
PageLoaded(variant, initial) ==
    /\ page = variant
    /\ initialScore = initial
    /\ domLoaded = FALSE
    /\ libInit = FALSE
    /\ onInitSet = FALSE
    /\ tk = "undefined"
    /\ toolkits = <<>>
    /\ gScoreMei = ""
    /\ notation = ""
    /\ formData = <<>>
    /\ jsonBody = [mei |-> "undefined", appendToConsole |-> "undefined"]
    /\ activations = <<>>
    /\ reads = {}
    /\ requests = <<>>
    /\ renders = <<>>
    /\ lastRendered = "none"
    /\ console = {}
    /\ svgClicks = <<>>

WorkerLoaded ==
    /\ methods = "null"
    /\ bootstrap = "pending"
    /\ inbox = <<>>
    /\ outbox = <<>>
    /\ arrived = <<>>
    /\ handled = <<>>
    /\ nextIdx = 1

\* The worker on its own: no page script runs.
Init == WorkerLoaded /\ PageLoaded("app", "")

\* The main thread posts a call envelope with a fresh idx.
SendCall ==
    /\ nextIdx <= MaxCalls
    /\ \E shape \in CallShapes :
          LET data == CallEnvelope(shape[1], nextIdx, shape[2])
          IN  /\ inbox' = Append(inbox, data)
              /\ arrived' = Append(arrived, data)
    /\ nextIdx' = nextIdx + 1
    /\ UNCHANGED <<methods, bootstrap, outbox, handled, pvars>>

\* The main thread posts a payload that is no envelope: postMessage(null).
SendNull ==
    /\ nextIdx <= MaxCalls
    /\ inbox' = Append(inbox, NullData)
    /\ arrived' = Append(arrived, NullData)
    /\ nextIdx' = nextIdx + 1
    /\ UNCHANGED <<methods, bootstrap, outbox, handled, pvars>>

\* verovio.module.onRuntimeInitialized, fired once by the library.  The
\* toolkit constructor or getVersion may throw out of the callback.
OnRuntimeInitialized ==
    /\ bootstrap = "pending"
    /\ \E lib \in {"ok", "toolkitThrows", "getVersionThrows"} :
          /\ methods' = IF lib = "toolkitThrows" THEN "unbound" ELSE "bound"
          /\ bootstrap' = IF lib = "ok" THEN "completed" ELSE "threw"
          /\ outbox' = IF lib = "ok" THEN outbox \o BootstrapPosts ELSE outbox
    /\ UNCHANGED <<inbox, arrived, handled, nextIdx, pvars>>

\* The event loop hands the oldest queued message to the listener, which
\* runs to completion.
NextMessage_newest(queue) == queue[Len(queue)]

NextMessage(queue) == Head(queue)

RestOfQueue(queue) == Tail(queue)

\* Where the lookup and call go on a registry object.
ReachesOn(m, data) ==
    IF data.method \in Registered
    THEN (IF m = "bound" THEN "library" ELSE "adapter")
    ELSE IF data.method \in ObjectPrototype THEN "inherited"
    ELSE "none"

Reaches_lazyRegistry(m, data) ==
    IF IsNull(data) THEN "none"
    ELSE ReachesOn(IF m = "null" THEN "unbound" ELSE m, data)

\* How far methods[oEvent.data.method].apply(...) gets: "none" when the
\* lookup itself throws or finds nothing callable, "inherited" for an
\* Object.prototype function, "adapter" when a registered operation is
\* entered, "library" when that operation reaches the toolkit.
Reaches(m, data) ==
    IF IsNull(data) \/ m = "null" THEN "none" ELSE ReachesOn(m, data)

\* The value of the global methods after a run of the listener: the
\* listener, resolve and reject never assign it.
MethodsAfterMessage_resetOnEscape(m, run) ==
    IF run.uncaught # "none" THEN "null" ELSE m

MethodsAfterMessage(m, run) == m

OnMessage ==
    /\ inbox # <<>>
    /\ LET data == NextMessage(inbox)
       IN  \E run \in Listener(methods, data) :
              /\ outbox' = outbox \o run.posted
              /\ methods' = MethodsAfterMessage(methods, run)
              /\ handled' = Append(handled,
                     [data |-> data, methods |-> methods,
                      booted |-> bootstrap # "pending",
                      reached |-> Reaches(methods, data),
                      outcome |-> run.outcome, posted |-> run.posted,
                      uncaught |-> run.uncaught])
    /\ inbox' = RestOfQueue(inbox)
    /\ UNCHANGED <<bootstrap, arrived, nextIdx, pvars>>

Next == SendCall \/ SendNull \/ OnRuntimeInitialized \/ OnMessage

Spec == Init /\ [][Next]_vars

\* ========================================================= page scripts

\* The variants of the page script: app/static/scripts/shopit.js ("app"),
\* the variant rendering with a toolkit made by assureVerovioInitialized
\* ("direct"), the variant with undo, redo and hideChordOptions ("undo"),
\* and music_site/static/scripts/shopit.js ("music_site").
Pages == {"app", "direct", "undo", "music_site"}

\* htmlDecode(initialScore.text.trim()): no score, or a score.
InitialScores == {"", "initial"}

containsScore(mei) == mei # "undefined" /\ mei # ""

\* The test renderMusic makes before rendering: containsScore(gScoreMei),
\* and in music_site gScoreMei != ''.
RenderGuard(variant, mei) ==
    IF variant = "music_site" THEN mei # "" ELSE containsScore(mei)

\* The test processResponse makes before calling renderMusic;
\* processMusicFromResponse calls it without a test.
ResponseRenders(variant, mei) ==
    IF variant = "music_site" THEN TRUE ELSE containsScore(mei)

\* Pages that load the verovio toolkit themselves.
UsesToolkit(variant) == variant \in {"direct", "music_site"}

\* ---------------------------------------------------------- renderMusic

\* verovio.toolkit instances stored so far, each with the number of
\* setOptions calls made on it; new verovio.toolkit() throws until the
\* runtime has initialized.
assureVerovioInitialized_noCache(toolkit, ready, made) ==
    IF ready
    THEN [tk |-> "toolkit", threw |-> FALSE, made |-> Append(made, 1)]
    ELSE [tk |-> toolkit, threw |-> TRUE, made |-> made]

assureVerovioInitialized(toolkit, ready, made) ==
    IF toolkit = "toolkit"
    THEN [tk |-> toolkit, threw |-> FALSE, made |-> made]
    ELSE IF ready
         THEN [tk |-> "toolkit", threw |-> FALSE, made |-> Append(made, 1)]
         ELSE [tk |-> toolkit, threw |-> TRUE, made |-> made]

\* A call of renderMusic that is not made, or that finds nothing to render.
NothingRendered(toolkit, made) ==
    [scores |-> <<>>, threw |-> FALSE, tk |-> toolkit, made |-> made]

\* One call of renderMusic with stored score mei: the scores it hands to
\* the renderer, the toolkit variable and the toolkits stored afterwards,
\* and whether it throws.  "direct" gets the toolkit from
\* assureVerovioInitialized; "music_site" dereferences tk as it is.
renderMusic(variant, mei, toolkit, ready, made) ==
    IF ~RenderGuard(variant, mei)
    THEN NothingRendered(toolkit, made)
    ELSE CASE variant \in {"app", "undo"} ->
                [scores |-> <<mei>>, threw |-> FALSE, tk |-> toolkit, made |-> made]
           [] variant = "direct" ->
                LET a == assureVerovioInitialized(toolkit, ready, made)
                IN  [scores |-> IF a.threw THEN <<>> ELSE <<mei>>,
                     threw |-> a.threw, tk |-> a.tk, made |-> a.made]
           [] variant = "music_site" ->
                IF toolkit = "toolkit"
                THEN [scores |-> <<mei>>, threw |-> FALSE, tk |-> toolkit, made |-> made]
                ELSE [scores |-> <<>>, threw |-> TRUE, tk |-> toolkit, made |-> made]

\* What the #notation element shows after a call of renderMusic.
Shown(old, r) == IF r.scores = <<>> THEN old ELSE r.scores[Len(r.scores)]

\* The score most recently handed to the renderer after that call.
LastHanded(old, r) == IF r.scores = <<>> THEN old ELSE r.scores[Len(r.scores)]

\* ------------------------------------------------------------- handlers

ChordOptionIds == {"dir-L5"}

FileNames == {"song.xml"}

\* The buttons (and chord options) the user clicks, each with the argument
\* its handler gets.  Every variant has transpose, shopItUpper, shopItLower
\* and chooseNewChordOption, and "undo" adds undo, redo and
\* hideChordOptions; the clicks tried are a subset per variant, the code of
\* a handler being the same text in each of them (but for the score field
\* that chooseNewChordOption adds in "music_site").
CommandHandlers(variant) ==
    CASE variant = "app" ->
            {<<"transpose", "">>, <<"shopItUpper", "">>, <<"shopItLower", "">>}
            \cup {<<"chooseNewChordOption", id>> : id \in ChordOptionIds}
      [] variant = "undo" ->
            {<<"undo", "">>, <<"redo", "">>, <<"hideChordOptions", "">>}
      [] variant = "music_site" ->
            {<<"chooseNewChordOption", id>> : id \in ChordOptionIds}
      [] OTHER -> {<<"transpose", "">>}

\* The files the user selects.  Every variant has the file input; the
\* selections tried are those of "app" (processResponse handles the answer)
\* and "music_site" (processMusicFromResponse does).
FilesTried(variant) == IF variant \in {"app", "music_site"} THEN FileNames ELSE {}

\* The fields a handler appends to its FormData, in order.
FormFields(variant, handler, arg, mei) ==
    CASE handler = "transpose" ->
            <<<<"command", "transpose">>, <<"semitones", "2">>>>
      [] handler = "shopItUpper" ->
            <<<<"command", "shopIt">>, <<"arrangementType", "UpperVoices">>>>
      [] handler = "shopItLower" ->
            <<<<"command", "shopIt">>, <<"arrangementType", "LowerVoices">>>>
      [] handler = "undo" -> <<<<"command", "undo">>>>
      [] handler = "redo" -> <<<<"command", "redo">>>>
      [] handler = "hideChordOptions" -> <<<<"command", "hideChordOptions">>>>
      [] handler = "chooseNewChordOption" ->
            IF variant = "music_site"
            THEN <<<<"command", "chooseChordOption">>, <<"score", mei>>,
                   <<"format", "mei">>, <<"chordOptionId", arg>>>>
            ELSE <<<<"command", "chooseChordOption">>, <<"chordOptionId", arg>>>>
      [] handler = "handleFiles" ->
            <<<<"file", arg>>, <<"filename", arg>>>>

FreshFormData_reused(old) == old

\* formData = new FormData()
FreshFormData(old) == <<>>

\* fetch(url, {method: 'POST', body: formData}): the body is read from the
\* FormData when fetch is called.
Post(url, body, by) ==
    [url |-> url, body |-> body, by |-> by, status |-> "inflight",
     resp |-> [ok |-> FALSE, body |-> [mei |-> "undefined",
                                        appendToConsole |-> "undefined"]],
     took |-> [mei |-> "undefined", appendToConsole |-> "undefined"],
     rendered |-> <<>>, threw |-> FALSE]

\* What fetch sends for one activation of a command handler.
CommandPosts_twice(filled, by) ==
    <<Post("/command", filled, by), Post("/command", filled, by)>>

CommandPosts(filled, by) == <<Post("/command", filled, by)>>

\* ------------------------------------------------------------- svgClick

\* Longest chain of nodes, from the clicked node up to the topmost one.
MaxDepth == 3

\* Nodes of the page, by nodeName and id.
Nodes ==
    {[nodeName |-> "svg", id |-> ""],
     [nodeName |-> "g", id |-> "dir-L5"],
     [nodeName |-> "g", id |-> "dir-L9"],
     [nodeName |-> "g", id |-> "dir-L7_"],
     [nodeName |-> "g", id |-> "note-1"],
     [nodeName |-> "text", id |-> "dir-T1"]}

\* event.target followed by its ancestors; the topmost node has no
\* parentNode.
ClickPaths == UNION {[1..n -> Nodes] : n \in 1..MaxDepth}

\* String.prototype.startsWith / endsWith
startsWith(str, prefix) ==
    Len(str) >= Len(prefix) /\ SubSeq(str, 1, Len(prefix)) = prefix

endsWith(str, suffix) ==
    /\ Len(str) >= Len(suffix)
    /\ SubSeq(str, Len(str) - Len(suffix) + 1, Len(str)) = suffix

RECURSIVE svgClickFrom_pastSvg(_, _, _)
svgClickFrom_pastSvg(variant, path, n) ==
    IF n > Len(path) THEN <<>>
    ELSE IF path[n].nodeName = "g" /\ startsWith(path[n].id, "dir-")
    THEN IF variant = "music_site" /\ endsWith(path[n].id, "_")
         THEN <<>>
         ELSE <<path[n].id>>
    ELSE svgClickFrom_pastSvg(variant, path, n + 1)

svgClick_pastSvg(variant, path) == svgClickFrom_pastSvg(variant, path, 1)

RECURSIVE svgClickFrom_pastSelected(_, _, _)
svgClickFrom_pastSelected(variant, path, n) ==
    IF n > Len(path) THEN <<>>
    ELSE IF path[n].nodeName = "svg" THEN <<>>
    ELSE IF /\ path[n].nodeName = "g" /\ startsWith(path[n].id, "dir-")
            /\ ~(variant = "music_site" /\ endsWith(path[n].id, "_"))
    THEN <<path[n].id>>
    ELSE svgClickFrom_pastSelected(variant, path, n + 1)

svgClick_pastSelected(variant, path) == svgClickFrom_pastSelected(variant, path, 1)

\* The loop of svgClick with target at position n of the path: the ids of
\* the targets it passes to chooseNewChordOption.
RECURSIVE svgClickFrom(_, _, _)
svgClickFrom(variant, path, n) ==
    IF n > Len(path) THEN <<>>
    ELSE IF path[n].nodeName = "svg" THEN <<>>
    ELSE IF path[n].nodeName = "g" /\ startsWith(path[n].id, "dir-")
    THEN IF variant = "music_site" /\ endsWith(path[n].id, "_")
         THEN <<>>
         ELSE <<path[n].id>>
    ELSE svgClickFrom(variant, path, n + 1)

svgClick(variant, path) == svgClickFrom(variant, path, 1)

\* ------------------------------------------------------------ responses

MeiOf(i) == "mei" \o ToString(i)

LogOf(i) == "log" \o ToString(i)

\* JSON bodies the server may answer request i with.
Bodies(i) ==
    {[mei |-> "undefined", appendToConsole |-> "undefined"],
     [mei |-> "", appendToConsole |-> LogOf(i)],
     [mei |-> MeiOf(i), appendToConsole |-> LogOf(i)]}

Responses(i) ==
    {[ok |-> TRUE, body |-> b] : b \in Bodies(i)}
    \cup {[ok |-> FALSE, body |-> [mei |-> MeiOf(i), appendToConsole |-> LogOf(i)]]}

ReadsBody_always(resp) == TRUE

\* if (resp.ok)
ReadsBody(resp) == resp.ok

\* jsonBody = await resp.json()
JsonBodyAfterAwait(global, body) == body

\* gScoreMei = jsonBody['mei']
StoredAfterResponse(old, mei) == mei

\* -------------------------------------------------------- page actions

InitPage ==
    /\ WorkerLoaded
    /\ \E variant \in Pages, initial \in InitialScores : PageLoaded(variant, initial)

\* The DOMContentLoaded listener.  "music_site" only assigns
\* verovio.module.onRuntimeInitialized; the others store the initial score
\* and render it, and "direct" then assigns onRuntimeInitialized (not
\* reached when renderMusic throws).
DOMContentLoaded ==
    /\ ~domLoaded
    /\ domLoaded' = TRUE
    /\ IF page = "music_site"
       THEN /\ onInitSet' = TRUE
            /\ UNCHANGED <<gScoreMei, notation, renders, lastRendered, tk, toolkits>>
       ELSE LET r == IF containsScore(initialScore)
                     THEN renderMusic(page, initialScore, tk, libInit, toolkits)
                     ELSE NothingRendered(tk, toolkits)
            IN  /\ gScoreMei' = initialScore
                /\ notation' = Shown(notation, r)
                /\ renders' = renders \o r.scores
                /\ lastRendered' = LastHanded(lastRendered, r)
                /\ tk' = r.tk
                /\ toolkits' = r.made
                /\ onInitSet' = (page = "direct" /\ ~r.threw)
    /\ UNCHANGED <<wvars, page, initialScore, libInit, formData, jsonBody,
                   activations, reads, requests, console, svgClicks>>

\* The verovio runtime finishes initializing in the page and calls
\* verovio.module.onRuntimeInitialized if it has been assigned.
RuntimeInitialized ==
    /\ UsesToolkit(page)
    /\ ~libInit
    /\ libInit' = TRUE
    /\ IF ~onInitSet
       THEN UNCHANGED <<gScoreMei, notation, renders, lastRendered, tk, toolkits>>
       ELSE LET t == IF page = "music_site"
                     THEN [tk |-> "toolkit", threw |-> FALSE,
                           made |-> Append(toolkits, 1)]
                     ELSE assureVerovioInitialized(tk, TRUE, toolkits)
                g == IF page = "music_site" THEN initialScore ELSE gScoreMei
                r == IF RenderGuard(page, g) /\ g # "undefined"
                     THEN renderMusic(page, g, t.tk, TRUE, t.made)
                     ELSE NothingRendered(t.tk, t.made)
            IN  /\ gScoreMei' = g
                /\ notation' = Shown(notation, r)
                /\ renders' = renders \o r.scores
                /\ lastRendered' = LastHanded(lastRendered, r)
                /\ tk' = r.tk
                /\ toolkits' = r.made
    /\ UNCHANGED <<wvars, page, initialScore, domLoaded, onInitSet, formData,
                   jsonBody, activations, reads, requests, console, svgClicks>>

\* A click runs a command handler: formData = new FormData(), the appends
\* and fetch('/command', ...), all in one turn.
Click ==
    /\ Len(activations) < MaxClicks
    /\ \E h \in CommandHandlers(page) :
          LET filled == FreshFormData(formData)
                            \o FormFields(page, h[1], h[2], gScoreMei)
              by == Len(activations) + 1
          IN  /\ formData' = filled
              /\ requests' = requests \o CommandPosts(filled, by)
              /\ activations' = Append(activations, [handler |-> h[1], arg |-> h[2]])
    /\ UNCHANGED <<wvars, page, initialScore, domLoaded, libInit, onInitSet, tk,
                   toolkits, gScoreMei, notation, jsonBody, reads, renders,
                   lastRendered, console, svgClicks>>

\* A file is selected: handleFiles starts a FileReader.
FileSelected ==
    /\ Len(activations) < MaxClicks
    /\ \E f \in FilesTried(page) :
          activations' = Append(activations, [handler |-> "handleFiles", arg |-> f])
    /\ reads' = reads \cup {Len(activations) + 1}
    /\ UNCHANGED <<wvars, page, initialScore, domLoaded, libInit, onInitSet, tk,
                   toolkits, gScoreMei, notation, formData, jsonBody, requests,
                   renders, lastRendered, console, svgClicks>>

\* reader.onload: a local FormData is filled and posted to /score.
ReaderLoaded ==
    /\ \E a \in reads :
          /\ requests' = Append(requests,
                 Post("/score",
                      FormFields(page, "handleFiles", activations[a].arg, gScoreMei),
                      a))
          /\ reads' = reads \ {a}
    /\ UNCHANGED <<wvars, page, initialScore, domLoaded, libInit, onInitSet, tk,
                   toolkits, gScoreMei, notation, formData, jsonBody, activations,
                   renders, lastRendered, console, svgClicks>>

\* A response arrives: processResponse runs up to await resp.json(), or
\* returns at once when the response is not ok.
ResponseArrives ==
    /\ \E i \in DOMAIN requests :
          /\ requests[i].status = "inflight"
          /\ \E resp \in Responses(i) :
                requests' = [requests EXCEPT
                    ![i].resp = resp,
                    ![i].status = IF ReadsBody(resp) THEN "parsing" ELSE "done"]
    /\ UNCHANGED <<wvars, page, initialScore, domLoaded, libInit, onInitSet, tk,
                   toolkits, gScoreMei, notation, formData, jsonBody, activations,
                   reads, renders, lastRendered, console, svgClicks>>

\* resp.json() settles: the rest of processResponse (or of
\* processMusicFromResponse, which logs nothing) runs in one turn.
BodyParsed ==
    /\ \E i \in DOMAIN requests :
          /\ requests[i].status = "parsing"
          /\ LET jb == JsonBodyAfterAwait(jsonBody, requests[i].resp.body)
                 g == StoredAfterResponse(gScoreMei, jb.mei)
                 r == IF ResponseRenders(page, g)
                      THEN renderMusic(page, g, tk, libInit, toolkits)
                      ELSE NothingRendered(tk, toolkits)
             IN  /\ jsonBody' = jb
                 /\ console' =
                       IF page # "music_site" /\ jb.appendToConsole # "undefined"
                       THEN console \cup {[by |-> i, text |-> jb.appendToConsole]}
                       ELSE console
                 /\ gScoreMei' = g
                 /\ notation' = Shown(notation, r)
                 /\ lastRendered' = LastHanded(lastRendered, r)
                 /\ tk' = r.tk
                 /\ toolkits' = r.made
                 /\ requests' = [requests EXCEPT
                       ![i].status = "done",
                       ![i].rendered = r.scores,
                       ![i].threw = r.threw,
                       ![i].took = [mei |-> jb.mei,
                                    appendToConsole |-> jb.appendToConsole]]
    /\ UNCHANGED <<wvars, page, initialScore, domLoaded, libInit, onInitSet,
                   formData, activations, reads, renders, svgClicks>>

NextPage ==
    \/ DOMContentLoaded
    \/ RuntimeInitialized
    \/ Click
    \/ FileSelected
    \/ ReaderLoaded
    \/ ResponseArrives
    \/ BodyParsed

SpecPage == InitPage /\ [][NextPage]_vars

\* The page scripts when the browser does dispatch DOMContentLoaded and the
\* verovio runtime does finish initializing.
FairPage ==
    SpecPage /\ WF_vars(DOMContentLoaded) /\ WF_vars(RuntimeInitialized)

\* A click on the notation: svgClick walks up from the clicked node and
\* calls chooseNewChordOption for the target it finds, all in one turn.
SvgClick ==
    /\ svgClicks = <<>>
    /\ \E path \in ClickPaths :
          LET targets == svgClick(page, path)
              by == Len(activations) + 1
              filled == FreshFormData(formData)
                            \o FormFields(page, "chooseNewChordOption",
                                          targets[1], gScoreMei)
              sent == IF targets = <<>> THEN <<>> ELSE CommandPosts(filled, by)
          IN  /\ svgClicks' = <<[path |-> path,
                                 posts |-> {Len(requests) + k : k \in 1..Len(sent)}]>>
              /\ requests' = requests \o sent
              /\ formData' = IF targets = <<>> THEN formData ELSE filled
              /\ activations' =
                    IF targets = <<>>
                    THEN activations
                    ELSE Append(activations, [handler |-> "chooseNewChordOption",
                                              arg |-> targets[1]])
    /\ UNCHANGED <<wvars, page, initialScore, domLoaded, libInit, onInitSet, tk,
                   toolkits, gScoreMei, notation, jsonBody, reads, renders,
                   lastRendered, console>>

\* Clicks on the notation of any of the page scripts.
InitClick == WorkerLoaded /\ \E variant \in Pages : PageLoaded(variant, "")

NextClick == SvgClick

SpecClick == InitClick /\ [][NextClick]_vars

\* ============================================================== claims

IsCall(data) == ~IsNull(data)

\* Positions in the outbox of the result envelopes carrying idx.
ResultsFor(idx) ==
    {p \in DOMAIN outbox : IsResult(outbox[p]) /\ outbox[p].idx = idx}

\* The runs of the listener on call envelopes.
HandledCalls == {k \in DOMAIN handled : IsCall(handled[k].data)}

ReadyCount == Cardinality({p \in DOMAIN outbox : outbox[p] = ReadyMsg})

\* C1: once the listener has run on a call envelope, the outbox holds exactly
\* one result envelope with that call's idx (one reply per call, never two,
\* also with several calls outstanding).
C1_ExactlyOneReplyPerCall ==
    \A k \in HandledCalls : Cardinality(ResultsFor(handled[k].data.idx)) = 1

\* C2: every result envelope in the outbox carries the idx of a call
\* envelope the listener has received; none is posted spontaneously.
C2_NoSpontaneousResult ==
    \A p \in DOMAIN outbox :
        IsResult(outbox[p]) =>
            \E k \in HandledCalls : handled[k].data.idx = outbox[p].idx

C2_Witness ==
    /\ bootstrap = "completed"
    /\ \E p \in DOMAIN outbox : IsResult(outbox[p]) /\ outbox[p].success
    /\ \E p \in DOMAIN outbox : IsResult(outbox[p]) /\ ~outbox[p].success

\* C3: a call to a registered operation that returns without throwing is
\* answered by exactly one result envelope, with the same idx and
\* success: true.
C3_RegisteredCallSucceeds ==
    \A k \in HandledCalls :
        (/\ handled[k].data.method \in Registered
         /\ handled[k].outcome.kind = "return")
        => /\ Cardinality(ResultsFor(handled[k].data.idx)) = 1
           /\ \A p \in ResultsFor(handled[k].data.idx) : outbox[p].success

C3_Witness ==
    \E k \in HandledCalls :
        /\ handled[k].data.method = "renderData"
        /\ handled[k].outcome.kind = "return"
        /\ \E p \in ResultsFor(handled[k].data.idx) : outbox[p].success

\* C4: a call whose method name is not a registered operation is answered
\* by exactly one result envelope with the same idx and success: false.
C4_UnregisteredCallFails ==
    \A k \in HandledCalls :
        handled[k].data.method \notin Registered
        => /\ Cardinality(ResultsFor(handled[k].data.idx)) = 1
           /\ \A p \in ResultsFor(handled[k].data.idx) : ~outbox[p].success

C6_EarlyCallFails ==
    /\ \A k \in HandledCalls :
          handled[k].methods = "null"
          => /\ handled[k].uncaught = "none"
             /\ \A p \in ResultsFor(handled[k].data.idx) : ~outbox[p].success
    /\ (inbox # <<>> => ENABLED OnMessage)

C6_Witness ==
    \E k, j \in HandledCalls :
        /\ k < j
        /\ handled[k].methods = "null"
        /\ ResultsFor(handled[k].data.idx) # {}
        /\ \E p \in ResultsFor(handled[j].data.idx) : outbox[p].success

\* C7: every failed call (unknown method, exception thrown by the operation,
\* registry still null) is answered by one result envelope with
\* success: false whose result is the caught error value.
C7_FailureAnsweredWithError ==
    \A k \in HandledCalls :
        handled[k].outcome.kind = "throw"
        => /\ Len(handled[k].posted) = 1
           /\ ~handled[k].posted[1].success
           /\ handled[k].posted[1].result = handled[k].outcome.value

\* C8: every result envelope posted while answering a call echoes that
\* call's method and idx, and every result envelope in the outbox was
\* posted while answering the call whose idx it carries.
C8_ReplyEchoesCall ==
    /\ \A k \in HandledCalls :
          \A i \in DOMAIN handled[k].posted :
              /\ handled[k].posted[i].method = handled[k].data.method
              /\ handled[k].posted[i].idx = handled[k].data.idx
    /\ \A p \in DOMAIN outbox :
          IsResult(outbox[p]) =>
              \E k \in HandledCalls : handled[k].posted = <<outbox[p]>>

C8_Witness ==
    \E k, j \in HandledCalls :
        /\ k # j
        /\ handled[k].data.method # handled[j].data.method
        /\ Len(handled[k].posted) = 1 /\ handled[k].posted[1].success
        /\ Len(handled[j].posted) = 1 /\ ~handled[j].posted[1].success

\* Position at which the call envelope with this idx arrived.
ArrivalPos(idx) ==
    CHOOSE n \in DOMAIN arrived : IsCall(arrived[n]) /\ arrived[n].idx = idx

\* C9: messages are handled one at a time in arrival order (the k-th run of
\* the listener is on the k-th arrived message, the rest still queued), and
\* result envelopes appear in the outbox in the arrival order of their calls.
C9_ArrivalOrder ==
    /\ Len(handled) <= Len(arrived)
    /\ \A k \in DOMAIN handled : handled[k].data = arrived[k]
    /\ inbox = SubSeq(arrived, Len(handled) + 1, Len(arrived))
    /\ \A p, q \in DOMAIN outbox :
          (p < q /\ IsResult(outbox[p]) /\ IsResult(outbox[q]))
          => ArrivalPos(outbox[p].idx) < ArrivalPos(outbox[q].idx)

C9_Witness ==
    /\ Len(inbox) >= 1
    /\ \E p, q \in DOMAIN outbox :
          p < q /\ IsResult(outbox[p]) /\ IsResult(outbox[q])

\* C10: the result of a success reply is the value the operation named by
\* the call's method returned for the call's args.
C10_SuccessCarriesReturnValue ==
    \A k \in HandledCalls :
        \A p \in ResultsFor(handled[k].data.idx) :
            outbox[p].success
            => /\ handled[k].outcome.kind = "return"
               /\ outbox[p].result = handled[k].outcome.value
               /\ handled[k].outcome \in
                     Invoke(handled[k].methods, handled[k].data.method,
                            handled[k].data.args)

C10_Witness ==
    \E k \in HandledCalls :
        /\ handled[k].data.method = "renderData"
        /\ \E p \in ResultsFor(handled[k].data.idx) :
              outbox[p].success /\ outbox[p].result = "svg"

\* C11: the global methods changes only in the step of the
\* runtime-initialized notification, from null to the registry; it is null
\* exactly while the notification is pending, and no run of the listener
\* changes it.
C11_MethodsSetOnce ==
    /\ [](methods = "null" <=> bootstrap = "pending")
    /\ [][methods' # methods =>
             (methods = "null" /\ bootstrap = "pending" /\ bootstrap' # "pending")]_vars

C11_Witness ==
    /\ methods # "null"
    /\ \E k, j \in DOMAIN handled :
          /\ k < j
          /\ handled[k].booted /\ handled[k].uncaught # "none"
          /\ handled[j].methods = handled[k].methods

\* C12: a run of the listener that starts before the runtime-initialized
\* notification enters no adapter operation, no inherited function and no
\* library call: the lookup on null throws first.
C12_NoInvocationBeforeInit ==
    \A k \in DOMAIN handled :
        ~handled[k].booted
        => /\ handled[k].reached = "none"
           /\ handled[k].outcome = Throw("TypeError")

C12_Witness ==
    \E k, j \in HandledCalls :
        /\ ~handled[k].booted /\ handled[k].data.method = "renderData"
        /\ handled[j].booted /\ handled[j].reached = "library"

\* C13: no call whose operation ran to completion is answered with
\* success: false.
C13_CompletedNeverReportedFailed ==
    \A k \in HandledCalls :
        handled[k].outcome.kind = "return"
        => \A i \in DOMAIN handled[k].posted : handled[k].posted[i].success

\* C14: at every message-handling boundary either the registry is null and
\* no readiness envelope was posted, or the registry is set and bound to a
\* toolkit and the readiness envelope was posted.
C14_TwoStatesOnly ==
    \/ (methods = "null" /\ ReadyCount = 0)
    \/ (methods = "bound" /\ ReadyCount = 1)

\* C15: no run of the listener lets an exception out, and every failed run
\* ends in a posted reply.
C15_NothingEscapesListener ==
    \A k \in DOMAIN handled :
        /\ handled[k].uncaught = "none"
        /\ (handled[k].outcome.kind = "throw" => Len(handled[k].posted) = 1)

\* --------------------------------------------------- page-script claims

\* The requests an activation has sent.
PostsBy(a) == {i \in DOMAIN requests : requests[i].by = a}

\* The command name each handler is to send.
CommandNameOf(handler) ==
    CASE handler = "transpose" -> "transpose"
      [] handler \in {"shopItUpper", "shopItLower"} -> "shopIt"
      [] handler = "chooseNewChordOption" -> "chooseChordOption"
      [] OTHER -> handler

\* The parameter each handler is to send besides the command name.
ParameterOf(a) ==
    CASE activations[a].handler = "transpose" -> {<<"semitones", "2">>}
      [] activations[a].handler = "shopItUpper" -> {<<"arrangementType", "UpperVoices">>}
      [] activations[a].handler = "shopItLower" -> {<<"arrangementType", "LowerVoices">>}
      [] activations[a].handler = "chooseNewChordOption" ->
            {<<"chordOptionId", activations[a].arg>>}
      [] OTHER -> {}

FieldsOf(body) == {body[n] : n \in DOMAIN body}

FieldNames(body) == [n \in DOMAIN body |-> body[n][1]]

Completes(i) == requests[i].status # "done" /\ requests'[i].status = "done"

\* C17: the step in which the handler of a response that is not ok finishes
\* leaves gScoreMei, the notation and the renderer's history unchanged and
\* renders nothing.
C17_NotOkChangesNothing ==
    [][\A i \in DOMAIN requests :
          (Completes(i) /\ ~requests'[i].resp.ok)
          => /\ gScoreMei' = gScoreMei
             /\ notation' = notation
             /\ lastRendered' = lastRendered
             /\ renders' = renders
             /\ requests'[i].rendered = <<>>]_vars

C17_Witness ==
    \E i, j \in DOMAIN requests :
        /\ i < j
        /\ requests[i].status = "done" /\ requests[i].resp.ok
        /\ requests[i].rendered # <<>>
        /\ requests[j].status = "done" /\ ~requests[j].resp.ok
        /\ gScoreMei = requests[i].resp.body.mei
        /\ notation = gScoreMei

\* C18: once a score has been handed to the renderer, every step in which
\* the handler of a response finishes leaves gScoreMei equal to the score
\* most recently handed to the renderer, and hands the renderer only
\* defined, non-empty scores.
C18_StoredEqualsRendered ==
    [][\A i \in DOMAIN requests :
          (Completes(i) /\ lastRendered' # "none")
          => /\ gScoreMei' = lastRendered'
             /\ \A n \in DOMAIN requests'[i].rendered :
                   containsScore(requests'[i].rendered[n])]_vars

\* Request i has been answered ok with a score and fully processed.
ProcessedWithScore(i) ==
    /\ requests[i].status = "done"
    /\ requests[i].resp.ok
    /\ containsScore(requests[i].resp.body.mei)

\* C19: when command A was issued before command B, both were answered ok
\* with a score and both responses have been processed (and no other), the
\* stored and the displayed score are the score of B's response.
C19_LastIssuedWins ==
    \A a, b \in DOMAIN requests :
        (/\ page \in {"app", "undo"}
         /\ a < b
         /\ requests[a].url = "/command" /\ requests[b].url = "/command"
         /\ ProcessedWithScore(a) /\ ProcessedWithScore(b)
         /\ \A c \in DOMAIN requests \ {a, b} : requests[c].status = "inflight")
        => /\ gScoreMei = requests[b].resp.body.mei
           /\ notation = requests[b].resp.body.mei

\* The field names each handler appends, in order.
ExpectedNames(variant, handler) ==
    CASE handler = "transpose" -> <<"command", "semitones">>
      [] handler \in {"shopItUpper", "shopItLower"} -> <<"command", "arrangementType">>
      [] handler = "chooseNewChordOption" ->
            IF variant = "music_site"
            THEN <<"command", "score", "format", "chordOptionId">>
            ELSE <<"command", "chordOptionId">>
      [] handler = "handleFiles" -> <<"file", "filename">>
      [] OTHER -> <<"command">>

\* C20: the body of every POST holds exactly the fields its own activation
\* appended, and every finished run of processResponse took mei and
\* appendToConsole (and logged) from the body of its own response.
C20_NoCrossTalk ==
    /\ \A i \in DOMAIN requests :
          /\ FieldNames(requests[i].body)
                = ExpectedNames(page, activations[requests[i].by].handler)
          /\ <<"command", CommandNameOf(activations[requests[i].by].handler)>>
                \in FieldsOf(requests[i].body)
             \/ activations[requests[i].by].handler = "handleFiles"
          /\ (requests[i].status = "done" /\ requests[i].resp.ok)
             => requests[i].took = requests[i].resp.body
    /\ \A c \in console : c.text = requests[c.by].resp.body.appendToConsole

C20_Witness ==
    /\ Len(requests) >= 2
    /\ requests[1].url = "/command" /\ requests[2].url = "/command"
    /\ requests[1].body # requests[2].body
    /\ requests[1].status = "parsing"
    /\ requests[2].status = "done" /\ requests[2].resp.ok
    /\ \E c \in console : c.by = 2
    /\ jsonBody = requests[2].resp.body
    /\ requests[1].resp.body # requests[2].resp.body

\* ------------------------------------------------- clicks on the notation

\* Positions on a path of the 'svg' elements, and of the 'g' elements whose
\* id starts with "dir-".
SvgAt(path) == {n \in DOMAIN path : path[n].nodeName = "svg"}

DirAt(path) ==
    {n \in DOMAIN path : path[n].nodeName = "g" /\ startsWith(path[n].id, "dir-")}

\* The nearest "dir-" 'g' element of a path, if it has one.
NearestDir(path) == {n \in DirAt(path) : \A m \in 1..(n - 1) : m \notin DirAt(path)}

\* The nearest "dir-" 'g' element, if no 'svg' element comes before it.
ChordTargets(path) == {n \in NearestDir(path) : \A m \in 1..(n - 1) : m \notin SvgAt(path)}

SendsChordOption(i, id) ==
    /\ requests[i].url = "/command"
    /\ <<"command", "chooseChordOption">> \in FieldsOf(requests[i].body)
    /\ <<"chordOptionId", id>> \in FieldsOf(requests[i].body)

\* C21: outside music_site, a click on the notation (whose walk has ended)
\* has sent at most one command; when the nearest "dir-" 'g' element of the
\* path comes before every 'svg' element it has sent chooseChordOption with
\* that element's id, and otherwise (an 'svg' element or the end of the path
\* comes first) it has sent nothing.
C21_NearestChordOption ==
    \A k \in DOMAIN svgClicks :
        page # "music_site" =>
            LET c == svgClicks[k]
            IN  /\ Cardinality(c.posts) <= 1
                /\ \A n \in ChordTargets(c.path) :
                      \E i \in c.posts : SendsChordOption(i, c.path[n].id)
                /\ ChordTargets(c.path) = {} => c.posts = {}

C21_Witness ==
    /\ page # "music_site"
    /\ \E k \in DOMAIN svgClicks :
          LET c == svgClicks[k]
          IN  /\ Len(c.path) = 3
              /\ c.path[1].nodeName = "text"
              /\ c.path[2].id = "dir-L7_"
              /\ c.path[3].id = "dir-L5"
              /\ \E i \in c.posts : SendsChordOption(i, "dir-L7_")

\* C22: in music_site, a click whose nearest "dir-" 'g' element has an id
\* ending in "_" has sent no command, whatever lies further out.
C22_SelectedSendsNothing ==
    \A k \in DOMAIN svgClicks :
        page = "music_site" =>
            \A n \in NearestDir(svgClicks[k].path) :
                endsWith(svgClicks[k].path[n].id, "_") => svgClicks[k].posts = {}

C22_Witness ==
    /\ page = "music_site"
    /\ \E k \in DOMAIN svgClicks :
          LET c == svgClicks[k]
          IN  /\ Len(c.path) = 3
              /\ c.path[1].nodeName = "text"
              /\ c.path[2].id = "dir-L7_"
              /\ c.path[3].id = "dir-L5"
              /\ c.posts = {}

\* ------------------------------------------------------ the initial score

\* A page event has rendered the initial score into the notation element.
InitialScoreShown == \E n \in DOMAIN renders : renders[n] = initialScore

\* C23: a page whose initial score is not empty eventually renders it into
\* the notation element, whichever of DOMContentLoaded and the runtime's
\* initialization comes first.
C23_InitialScoreRendered == (initialScore # "") ~> InitialScoreShown

\* C24: in music_site no run of processMusicFromResponse has made
\* renderMusic dereference tk while it was unset.
C24_TkSetBeforeRender ==
    page = "music_site" => \A i \in DOMAIN requests : ~requests[i].threw

\* processMusicFromResponse has stored a score received from the server, and
\* gScoreMei still holds it.
ServerScoreStored ==
    /\ page = "music_site"
    /\ \E i \in DOMAIN requests :
          /\ ProcessedWithScore(i)
          /\ gScoreMei = requests[i].took.mei

\* C25: in music_site, once a score from the server is stored, no step other
\* than the handling of a response puts the page's initial score into
\* gScoreMei or into the notation.
C25_ServerScoreKept ==
    [][(ServerScoreStored /\ requests' = requests)
       => /\ (gScoreMei' = initialScore => gScoreMei = initialScore)
          /\ (notation' = initialScore => notation = initialScore)]_vars

\* C26: in the script that uses assureVerovioInitialized, at most one
\* toolkit instance is ever stored, setOptions has been called on it exactly
\* once, and the toolkit variable holds an instance exactly when one has
\* been stored.
C26_OneToolkit ==
    page = "direct"
    => /\ Len(toolkits) <= 1
       /\ \A k \in DOMAIN toolkits : toolkits[k] = 1
       /\ (tk = "toolkit" <=> Len(toolkits) = 1)

C26_Witness ==
    /\ page = "direct"
    /\ toolkits = <<1>>
    /\ renders # <<>>
    /\ \E i, j \in DOMAIN requests :
          i # j /\ requests[i].rendered # <<>> /\ requests[j].rendered # <<>>

====
